---- MODULE Spec2Model ----
(***************************************************************************)
(* A model of elf-utilities: the 64-bit file model and its layout engine   *)
(* (file/elf64.rs), the string-table builders (section/util.rs), the       *)
(* identification setters of the header (header/elf64.rs) and the reader   *)
(* (parser/parse.rs).                                                      *)
(*                                                                         *)
(* Bytes are the integers 0..255.  A Vec<u8> is a sequence of bytes.       *)
(* Section index i of the code (0-based) is sections[i + 1] here.          *)
(***************************************************************************)
EXTENDS Integers, Sequences, FiniteSets, TLC

VARIABLES
    ehdr,        \* ELF64.ehdr: the header record (file/elf64.rs:6)
    sections,    \* ELF64.sections: Vec<Section64> (file/elf64.rs:7)
    fstate,      \* "ok", or "panic" once a call on the file has panicked
    conditioned, \* condition() has run since the sections last changed
    out,         \* the bytes the last call returned, when it was to_le_bytes
    nConds,      \* how many times condition() has run (bounded by MaxConditions)
    arg_strings,     \* the names handed to the string-table builders
    ret_string_table,      \* what build_string_table returned (<<>>: not called)
    ret_byte_string_table, \* what build_byte_string_table returned (<<>>: not called)
    builder,     \* an Ehdr64Builder (header/elf64.rs:63)
    phase,       \* "builder": the builder is being set up; "ehdr": an Ehdr64 exists
    lastSet,     \* the last identification setter called: <<object, component, byte>>
    file_path,   \* read_elf: the path it was given
    buf,         \* read_elf: the bytes of the file at that path
    rpc,         \* read_elf: where it stands
    r_header,    \* read_elf: <<the decoded header>>, or <<>> before it is decoded
    r_sections,  \* read_elf: the sections of elf_file
    r_segments,  \* read_elf: the segments of elf_file
    decoded,     \* read_elf: the tables decoded so far
    result       \* read_elf: what it returned, <<>> while it runs

fileVars == <<ehdr, sections, fstate, conditioned, out, nConds>>
tableVars == <<arg_strings, ret_string_table, ret_byte_string_table>>
identVars == <<builder, phase, lastSet>>
readVars ==
    <<file_path, buf, rpc, r_header, r_sections, r_segments, decoded, result>>

----------------------------------------------------------------------------
(* Bounds of the model. *)

MaxSections == 4
MaxConditions == 2
MaxNames == 2
MaxNameLen == 2

----------------------------------------------------------------------------
(* Integers and bytes. *)

RECURSIVE Pow(_, _)
Pow(b, e) == IF e = 0 THEN 1 ELSE b * Pow(b, e - 1)

(* A value cast to u16 (`as u16`). *)
AsU16(n) == n % 65536

(* The little-endian encoding of n on `width` bytes (bincode's fixed-width
   integers).  Every value of the model is below 2^31, so the bytes above the
   fourth are zero. *)
LeBytes(n, width) ==
    [i \in 1..width |-> IF i <= 4 THEN (n \div Pow(256, i - 1)) % 256 ELSE 0]

RECURSIVE Concat(_)
Concat(ss) == IF ss = <<>> THEN <<>> ELSE Head(ss) \o Concat(Tail(ss))

NUL == 0

----------------------------------------------------------------------------
(* header/elf64.rs: the header record and its identification field.        *)
(* e_ident is a u128; it is kept as its 16 byte lanes, lane k holding bits  *)
(* 8k..8k+7, so that `x << 8k` of a byte x is a value of lane k alone and   *)
(* `|=` acts lane by lane.                                                  *)

Lanes == 0..15

(* ELF_MAGIC_NUMBER = 0x7f454c46 << (12 * 8) *)
ELF_MAGIC_NUMBER ==
    [k \in Lanes |->
        CASE k = 15 -> 127    \* 0x7f
          [] k = 14 -> 69     \* 0x45
          [] k = 13 -> 76     \* 0x4c
          [] k = 12 -> 70     \* 0x46
          [] OTHER -> 0]

(* Ehdr64::new() *)
Ehdr64New ==
    [e_ident |-> ELF_MAGIC_NUMBER, e_type |-> 0, e_machine |-> 0,
     e_version |-> 0, e_entry |-> 0, e_phoff |-> 0, e_shoff |-> 0,
     e_flags |-> 0, e_ehsize |-> 0, e_phentsize |-> 0, e_phnum |-> 0,
     e_shentsize |-> 0, e_shnum |-> 0, e_shstrndx |-> 0]

(* Ehdr64Builder::new() *)
Ehdr64BuilderNew ==
    [e_ident |-> ELF_MAGIC_NUMBER, e_type |-> 0, e_machine |-> 0,
     e_version |-> 0, e_entry |-> 0, e_phoff |-> 0, e_shoff |-> 0,
     e_flags |-> 0, e_ehsize |-> 0, e_phentsize |-> 0, e_phnum |-> 0,
     e_shentsize |-> 0, e_shnum |-> 0, e_shstrndx |-> 0]

(* Ehdr64Builder::finalize(): every field copied. *)
finalize(b) ==
    [e_ident |-> b.e_ident, e_type |-> b.e_type, e_machine |-> b.e_machine,
     e_version |-> b.e_version, e_entry |-> b.e_entry, e_phoff |-> b.e_phoff,
     e_shoff |-> b.e_shoff, e_flags |-> b.e_flags, e_ehsize |-> b.e_ehsize,
     e_phentsize |-> b.e_phentsize, e_phnum |-> b.e_phnum,
     e_shentsize |-> b.e_shentsize, e_shnum |-> b.e_shnum,
     e_shstrndx |-> b.e_shstrndx]

(* a | b on two bytes, bit by bit. *)
RECURSIVE BitOr(_, _)
BitOr(a, b) ==
    IF a = 0 THEN b
    ELSE IF b = 0 THEN a
    ELSE (IF a % 2 = 1 \/ b % 2 = 1 THEN 1 ELSE 0)
         + 2 * BitOr(a \div 2, b \div 2)

(* shift_position: (byte as u128) << (8 * lane), as a u128 in lanes. *)
ShiftPosition(byte, lane) == [k \in Lanes |-> IF k = lane THEN byte ELSE 0]

(* x | y on two u128: the lanes or-ed one by one. *)
Or128(x, y) == [k \in Lanes |-> BitOr(x[k], y[k])]

(* The values of the enumerations: <<variant>>, or <<"ANY", byte>>. *)
AnyBytes == {0, 255}
AnyValues == {<<"ANY", b>> : b \in AnyBytes}
ELF64CLASS ==
    {<<"CLASSNone">>, <<"CLASS32">>, <<"CLASS64">>, <<"CLASSNUM">>}
    \cup AnyValues
ELF64DATA ==
    {<<"DATANONE">>, <<"DATA2LSB">>, <<"DATA2MSB">>, <<"DATA2NUM">>}
    \cup AnyValues
ELF64VERSION == {<<"VERSIONCURRENT">>} \cup AnyValues
ELF64OSABI == AnyValues

(* The byte each to_identifier matches its variant to. *)
ClassByte(class) ==
    CASE class[1] = "CLASSNone" -> 0
      [] class[1] = "CLASS32" -> 1
      [] class[1] = "CLASS64" -> 2
      [] class[1] = "CLASSNUM" -> 3
      [] OTHER -> class[2]

DataByte(data) ==
    CASE data[1] = "DATANONE" -> 0
      [] data[1] = "DATA2LSB" -> 1
      [] data[1] = "DATA2MSB" -> 2
      [] data[1] = "DATA2NUM" -> 3
      [] OTHER -> data[2]

VersionByte(version) ==
    CASE version[1] = "VERSIONCURRENT" -> 1
      [] OTHER -> version[2]

OsabiByte(osabi) == osabi[2]

(* The lane each component is shifted to: << 88, << 80, << 72, and << 64
   for the OS-ABI (byte 7 of the identification). *)
LaneOf(component) ==
    CASE component = "class" -> 11
      [] component = "data" -> 10
      [] component = "version" -> 9
      [] component = "osabi" -> 8

(* ELF64CLASS::to_identifier, ELF64DATA::to_identifier,
   ELF64VERSION::to_identifier, ELF64OSABI::to_identifier *)
ClassToIdentifier(class) == ShiftPosition(ClassByte(class), 11)
DataToIdentifier(data) == ShiftPosition(DataByte(data), 10)
VersionToIdentifier(version) == ShiftPosition(VersionByte(version), 9)
OsabiToIdentifier(osabi) == ShiftPosition(OsabiByte(osabi), 8)

(* set_class, set_data, set_version, set_osabi, of Ehdr64 and of
   Ehdr64Builder alike: self.e_ident |= x.to_identifier() *)
set_class(h, class) == [h EXCEPT !.e_ident = Or128(@, ClassToIdentifier(class))]
set_data(h, data) == [h EXCEPT !.e_ident = Or128(@, DataToIdentifier(data))]
set_version(h, version) ==
    [h EXCEPT !.e_ident = Or128(@, VersionToIdentifier(version))]
set_osabi(h, osabi) == [h EXCEPT !.e_ident = Or128(@, OsabiToIdentifier(osabi))]

(* Ehdr64::size(): the size of the #[repr(C)] record, field by field. *)
EhdrSize == 16 + 2 + 2 + 4 + 8 + 8 + 8 + 4 + 2 + 2 + 2 + 2 + 2 + 2

(* Ehdr64::to_le_bytes(): the identification field with the magic first
   (bytes 0..3 magic, 4 class, 5 data, 6 version, 7 OS-ABI), then every
   other field little-endian in declaration order. *)
EhdrToLeBytes(h) ==
    [i \in 1..16 |-> h.e_ident[16 - i]]
    \o LeBytes(h.e_type, 2) \o LeBytes(h.e_machine, 2)
    \o LeBytes(h.e_version, 4) \o LeBytes(h.e_entry, 8)
    \o LeBytes(h.e_phoff, 8) \o LeBytes(h.e_shoff, 8)
    \o LeBytes(h.e_flags, 4) \o LeBytes(h.e_ehsize, 2)
    \o LeBytes(h.e_phentsize, 2) \o LeBytes(h.e_phnum, 2)
    \o LeBytes(h.e_shentsize, 2) \o LeBytes(h.e_shnum, 2)
    \o LeBytes(h.e_shstrndx, 2)

----------------------------------------------------------------------------
(* section/elf64.rs: the section header and the section. *)

(* Shdr64::size() *)
ShdrSize == 64

(* impl Default for Shdr64 *)
Shdr64Default ==
    [sh_name |-> 0, sh_type |-> 0, sh_flags |-> 0, sh_addr |-> 0,
     sh_offset |-> 0, sh_size |-> 0, sh_link |-> 0, sh_info |-> 0,
     sh_addralign |-> 0, sh_entsize |-> 0]

(* Shdr64::to_le_bytes(): bincode::serialize, the fields in declaration
   order, each little-endian on its own width. *)
ShdrToLeBytes(h) ==
    LeBytes(h.sh_name, 4) \o LeBytes(h.sh_type, 4) \o LeBytes(h.sh_flags, 8)
    \o LeBytes(h.sh_addr, 8) \o LeBytes(h.sh_offset, 8)
    \o LeBytes(h.sh_size, 8) \o LeBytes(h.sh_link, 4)
    \o LeBytes(h.sh_info, 4) \o LeBytes(h.sh_addralign, 8)
    \o LeBytes(h.sh_entsize, 8)

(* A Section64 as file/elf64.rs uses it: its header and its payload bytes. *)
Section64(shdr, bytes) == [header |-> shdr, bytes |-> bytes]

----------------------------------------------------------------------------
(* section/util.rs: the string-table builders.  A &str is its UTF-8 bytes. *)

(* PushStrings without the NUL that ends each name. *)
RECURSIVE PushStringsNoNul(_, _)
PushStringsNoNul(string_table, strings) ==
    IF strings = <<>> THEN string_table
    ELSE PushStringsNoNul(string_table \o Head(strings), Tail(strings))

(* The loop `for st in strings { push every byte of st; push 0x00 }`. *)
RECURSIVE PushStrings(_, _)
PushStrings(string_table, strings) ==
    IF strings = <<>> THEN string_table
    ELSE PushStrings(string_table \o Head(strings) \o <<NUL>>, Tail(strings))

(* PadTable pushing md bytes instead of 4 - md. *)
PadTableByRemainder(string_table) ==
    LET md == Len(string_table) % 4
    IN  string_table \o [i \in 1..md |-> NUL]

(* The alignment loop `for _ in 0..(4 - md) { push 0x00 }`. *)
PadTable(string_table) ==
    LET md == Len(string_table) % 4
    IN  string_table \o [i \in 1..(4 - md) |-> NUL]

build_string_table(strings) == PadTable(PushStrings(<<NUL>>, strings))

(* build_byte_string_table: the same construction over Vec<Vec<u8>>, written
   out from its own source. *)
RECURSIVE PushByteStrings(_, _)
PushByteStrings(string_table, strings) ==
    IF strings = <<>> THEN string_table
    ELSE PushByteStrings(string_table \o Head(strings) \o <<NUL>>,
                         Tail(strings))

build_byte_string_table(strings) ==
    LET string_table == PushByteStrings(<<NUL>>, strings)
        md == Len(string_table) % 4
    IN  string_table \o [i \in 1..(4 - md) |-> NUL]

----------------------------------------------------------------------------
(* Slices: split, splitn and take_while of the standard library, as the    *)
(* code calls them with the predicate `byte == 0x00`.                       *)

(* bytes[from .. from + len), from being a 0-based offset. *)
Slice(bytes, from, len) == SubSeq(bytes, from + 1, from + len)

(* The position of the first NUL of s, or 0 when s holds none. *)
FirstNul(s) ==
    IF \E i \in 1..Len(s) : s[i] = NUL
    THEN CHOOSE i \in 1..Len(s) : s[i] = NUL /\ \A j \in 1..(i - 1) : s[j] # NUL
    ELSE 0

(* slice.take_while(|b| b != 0x00) *)
TakeWhileNotNul(s) ==
    IF FirstNul(s) = 0 THEN s ELSE SubSeq(s, 1, FirstNul(s) - 1)

(* slice.splitn(n, |b| b == 0x00): at most n pieces, the last one holding the
   rest of the slice unsplit; no piece at all when n = 0. *)
RECURSIVE SplitN(_, _)
SplitN(n, s) ==
    IF n = 0 THEN <<>>
    ELSE IF n = 1 \/ FirstNul(s) = 0 THEN <<s>>
    ELSE <<SubSeq(s, 1, FirstNul(s) - 1)>>
         \o SplitN(n - 1, SubSeq(s, FirstNul(s) + 1, Len(s)))

(* slice.split(|b| b == 0x00): one piece more than the slice has NULs. *)
RECURSIVE Split(_)
Split(s) ==
    IF FirstNul(s) = 0 THEN <<s>>
    ELSE <<SubSeq(s, 1, FirstNul(s) - 1)>>
         \o Split(SubSeq(s, FirstNul(s) + 1, Len(s)))

----------------------------------------------------------------------------
(* file/elf64.rs: the operations of ELF64. *)

(* ELF64::section_number *)
section_number(secs) == Len(secs)

(* sum_section_sizes adding up the sizes the section headers declare instead
   of the payload lengths. *)
RECURSIVE sum_section_sizes_declared(_, _)
sum_section_sizes_declared(secs, base) ==
    IF secs = <<>> THEN base
    ELSE sum_section_sizes_declared(Tail(secs),
                                    base + Head(secs).header.sh_size)

(* ELF64::sum_section_sizes: fold(base, |sum, section| sum + bytes.len()) *)
RECURSIVE sum_section_sizes(_, _)
sum_section_sizes(secs, base) ==
    IF secs = <<>> THEN base
    ELSE sum_section_sizes(Tail(secs), base + Len(Head(secs).bytes))

(* ELF64::clean_sections_offset: the loop over sections.iter_mut(), `total`
   starting at `base`. *)
RECURSIVE clean_sections_offset(_, _)
clean_sections_offset(secs, total) ==
    IF secs = <<>> THEN <<>>
    ELSE LET section == Head(secs)
             sh_offset == section.header.sh_offset
             sh_size == section.header.sh_size
         IN  <<[section EXCEPT !.header.sh_offset = sh_offset + total]>>
             \o clean_sections_offset(Tail(secs), total + sh_size)

(* ConditionHeader storing the last index as the section count too. *)
ConditionHeaderCountIsLastIndex(h, secs) ==
    [h EXCEPT !.e_shentsize = ShdrSize,
              !.e_shnum = AsU16(AsU16(Len(secs)) - 1),
              !.e_shstrndx = AsU16(AsU16(Len(secs)) - 1),
              !.e_ehsize = EhdrSize,
              !.e_shoff = sum_section_sizes(secs, EhdrSize)]

(* The header fields condition() sets (file/elf64.rs:20-26). *)
ConditionHeader(h, secs) ==
    [h EXCEPT !.e_shentsize = ShdrSize,
              !.e_shnum = AsU16(Len(secs)),
              !.e_shstrndx = AsU16(AsU16(Len(secs)) - 1),
              !.e_ehsize = EhdrSize,
              !.e_shoff = sum_section_sizes(secs, EhdrSize)]

(* NameLoop advancing the running index by the name's length alone, without
   the NUL that ends it. *)
RECURSIVE NameLoopNoNul(_, _, _, _, _)
NameLoopNoNul(secs, pieces, idx, sh_name, shnum) ==
    IF idx >= Len(pieces) THEN secs
    ELSE IF idx = 0 \/ idx >= shnum
         THEN NameLoopNoNul(secs, pieces, idx + 1, sh_name, shnum)
         ELSE LET b == TakeWhileNotNul(pieces[idx + 1])
              IN  NameLoopNoNul(
                      [secs EXCEPT ![idx + 1].header.sh_name = sh_name],
                      pieces, idx + 1, sh_name + Len(b), shnum)

(* One pass of the loop of condition() over the enumerated pieces of the
   name table, from piece idx (0-based) on, sh_name being the running index
   (file/elf64.rs:37-53). *)
RECURSIVE NameLoop(_, _, _, _, _)
NameLoop(secs, pieces, idx, sh_name, shnum) ==
    IF idx >= Len(pieces) THEN secs
    ELSE IF idx = 0 \/ idx >= shnum
         THEN NameLoop(secs, pieces, idx + 1, sh_name, shnum)
         ELSE LET b == TakeWhileNotNul(pieces[idx + 1])
              IN  NameLoop([secs EXCEPT ![idx + 1].header.sh_name = sh_name],
                           pieces, idx + 1, sh_name + Len(b) + 1, shnum)

(* The sections condition() leaves, given the header it has just set. *)
ConditionSections(h, secs) ==
    LET cleaned == clean_sections_offset(secs, EhdrSize)
        shstrndx == h.e_shstrndx
        shnum == h.e_shnum
        name_count == shnum - 1
    IN  NameLoop(cleaned, SplitN(name_count, cleaned[shstrndx + 1].bytes),
                 0, 1, shnum)

(* ELF64::to_le_bytes: the header, every payload, every section header. *)
to_le_bytes(h, secs) ==
    EhdrToLeBytes(h)
    \o Concat([i \in 1..Len(secs) |-> secs[i].bytes])
    \o Concat([i \in 1..Len(secs) |-> ShdrToLeBytes(secs[i].header)])

(* The payloads a caller hands to add_section: raw bytes, or a name table
   built by build_string_table from the first n names of NameAt, n being 1
   (fewer names than most files have sections) or one name for every section
   but the null section. *)
NameAt(k) == [i \in 1..k |-> 96 + k]

RawPayloads == {<<>>, <<7, 8, 9>>}

TablePayloads ==
    {build_string_table([k \in 1..n |-> NameAt(k)]) :
        n \in {1, MaxSections - 1}}

(* The section headers a caller hands over with a payload: Default with the
   size set to the payload's length, or left as Default. *)
NewSections ==
    {Section64([Shdr64Default EXCEPT !.sh_size = Len(bytes)], bytes) :
        bytes \in RawPayloads \cup TablePayloads}
    \cup {Section64(Shdr64Default, bytes) : bytes \in RawPayloads}

(* ELF64::add_section *)
AddSection ==
    /\ fstate = "ok"
    /\ Len(sections) < MaxSections
    /\ \E sct \in NewSections : sections' = Append(sections, sct)
    /\ conditioned' = FALSE
    /\ out' = <<>>
    /\ UNCHANGED <<ehdr, fstate, nConds>>
    /\ UNCHANGED <<tableVars, identVars, readVars>>

(* ELF64::condition.  With no section, `len as u16 - 1` overflows: a debug
   build panics there, a release build wraps and panics at
   self.sections[shstrndx]. *)
Condition ==
    /\ fstate = "ok"
    /\ nConds < MaxConditions
    /\ nConds' = nConds + 1
    /\ conditioned' = TRUE
    /\ out' = <<>>
    /\ IF Len(sections) = 0
       THEN /\ fstate' = "panic"
            /\ \E build \in {"debug", "release"} :
                 ehdr' = IF build = "debug"
                         THEN [ehdr EXCEPT !.e_shentsize = ShdrSize,
                                           !.e_shnum = 0]
                         ELSE ConditionHeader(ehdr, sections)
            /\ UNCHANGED sections
       ELSE /\ ehdr' = ConditionHeader(ehdr, sections)
            /\ sections' = ConditionSections(ehdr', sections)
            /\ UNCHANGED fstate
    /\ UNCHANGED <<tableVars, identVars, readVars>>

(* ELF64::to_le_bytes *)
ToLeBytes ==
    /\ fstate = "ok"
    /\ out' = to_le_bytes(ehdr, sections)
    /\ UNCHANGED <<ehdr, sections, fstate, conditioned, nConds>>
    /\ UNCHANGED <<tableVars, identVars, readVars>>

(* ELF64::new(Ehdr64::new()) *)
InitFile ==
    /\ ehdr = Ehdr64New
    /\ sections = <<>>
    /\ fstate = "ok"
    /\ conditioned = FALSE
    /\ out = <<>>
    /\ nConds = 0

----------------------------------------------------------------------------
(* The string-table builders on their own: the names are drawn once, each
   builder is then called on them. *)

NameBytes == {NUL, 97, 98}

RECURSIVE SeqsUpTo(_, _)
SeqsUpTo(S, n) ==
    IF n = 0 THEN {<<>>}
    ELSE LET shorter == SeqsUpTo(S, n - 1)
         IN  shorter \cup {Append(q, x) : q \in shorter, x \in S}

(* Every name of at most MaxNameLen bytes, and every list of at most MaxNames
   of them. *)
Names == SeqsUpTo(NameBytes, MaxNameLen)
NameLists == SeqsUpTo(Names, MaxNames)

(* No string table asked for. *)
IdleTable ==
    /\ arg_strings = <<>>
    /\ ret_string_table = <<>>
    /\ ret_byte_string_table = <<>>

InitTable ==
    /\ arg_strings \in NameLists
    /\ ret_string_table = <<>>
    /\ ret_byte_string_table = <<>>

BuildStringTable ==
    /\ ret_string_table = <<>>
    /\ ret_string_table' = build_string_table(arg_strings)
    /\ UNCHANGED <<arg_strings, ret_byte_string_table>>
    /\ UNCHANGED <<fileVars, identVars, readVars>>

BuildByteStringTable ==
    /\ ret_byte_string_table = <<>>
    /\ ret_byte_string_table' = build_byte_string_table(arg_strings)
    /\ UNCHANGED <<arg_strings, ret_string_table>>
    /\ UNCHANGED <<fileVars, identVars, readVars>>


----------------------------------------------------------------------------
(* header/elf64.rs: the identification setters, called on an Ehdr64 or,     *)
(* through class(), data(), version() and osabi(), on an Ehdr64Builder that *)
(* finalize() then turns into an Ehdr64.                                    *)

IdleIdent ==
    /\ builder = Ehdr64BuilderNew
    /\ phase = "ehdr"
    /\ lastSet = <<>>

InitIdent ==
    /\ builder = Ehdr64BuilderNew
    /\ phase \in {"builder", "ehdr"}
    /\ lastSet = <<>>

restOfFile == <<sections, fstate, conditioned, out, nConds>>

EhdrSetClass ==
    /\ phase = "ehdr"
    /\ \E class \in ELF64CLASS :
         /\ ehdr' = set_class(ehdr, class)
         /\ lastSet' = <<"ehdr", "class", ClassByte(class)>>
    /\ UNCHANGED <<builder, phase, restOfFile, tableVars, readVars>>

EhdrSetData ==
    /\ phase = "ehdr"
    /\ \E data \in ELF64DATA :
         /\ ehdr' = set_data(ehdr, data)
         /\ lastSet' = <<"ehdr", "data", DataByte(data)>>
    /\ UNCHANGED <<builder, phase, restOfFile, tableVars, readVars>>

EhdrSetVersion ==
    /\ phase = "ehdr"
    /\ \E version \in ELF64VERSION :
         /\ ehdr' = set_version(ehdr, version)
         /\ lastSet' = <<"ehdr", "version", VersionByte(version)>>
    /\ UNCHANGED <<builder, phase, restOfFile, tableVars, readVars>>

EhdrSetOsabi ==
    /\ phase = "ehdr"
    /\ \E osabi \in ELF64OSABI :
         /\ ehdr' = set_osabi(ehdr, osabi)
         /\ lastSet' = <<"ehdr", "osabi", OsabiByte(osabi)>>
    /\ UNCHANGED <<builder, phase, restOfFile, tableVars, readVars>>

(* Ehdr64Builder::class *)
BuilderClass ==
    /\ phase = "builder"
    /\ \E class \in ELF64CLASS :
         /\ builder' = set_class(builder, class)
         /\ lastSet' = <<"builder", "class", ClassByte(class)>>
    /\ UNCHANGED <<phase, fileVars, tableVars, readVars>>

(* Ehdr64Builder::data *)
BuilderData ==
    /\ phase = "builder"
    /\ \E data \in ELF64DATA :
         /\ builder' = set_data(builder, data)
         /\ lastSet' = <<"builder", "data", DataByte(data)>>
    /\ UNCHANGED <<phase, fileVars, tableVars, readVars>>

(* Ehdr64Builder::version *)
BuilderVersion ==
    /\ phase = "builder"
    /\ \E version \in ELF64VERSION :
         /\ builder' = set_version(builder, version)
         /\ lastSet' = <<"builder", "version", VersionByte(version)>>
    /\ UNCHANGED <<phase, fileVars, tableVars, readVars>>

(* Ehdr64Builder::osabi *)
BuilderOsabi ==
    /\ phase = "builder"
    /\ \E osabi \in ELF64OSABI :
         /\ builder' = set_osabi(builder, osabi)
         /\ lastSet' = <<"builder", "osabi", OsabiByte(osabi)>>
    /\ UNCHANGED <<phase, fileVars, tableVars, readVars>>

(* Ehdr64Builder::finalize: the Ehdr64 it returns is a new object, on which
   no setter has been called yet. *)
Finalize ==
    /\ phase = "builder"
    /\ ehdr' = finalize(builder)
    /\ phase' = "ehdr"
    /\ lastSet' = <<>>
    /\ UNCHANGED <<builder, restOfFile, tableVars, readVars>>

----------------------------------------------------------------------------
(* parser/parse.rs: read_elf, for file::ELF64. *)

(* The value of little-endian bytes. *)
RECURSIVE FromLe(_)
FromLe(bytes) ==
    IF bytes = <<>> THEN 0 ELSE Head(bytes) + 256 * FromLe(Tail(bytes))

UintAt(b, offset, width) == FromLe(Slice(b, offset, width))

(* check_elf_magic comparing the first three bytes only. *)
check_elf_magic_three_bytes(path, b) ==
    IF b[1] # 127 \/ b[2] # 69 \/ b[3] # 76
    THEN <<"Err", "NotELF", path>>
    ELSE <<"Ok">>

(* check_elf_magic, on the four bytes read_elf hands it. *)
check_elf_magic(path, b) ==
    IF b[1] # 127 \/ b[2] # 69 \/ b[3] # 76 \/ b[4] # 70
    THEN <<"Err", "NotELF", path>>
    ELSE <<"Ok">>

(* parse_elf_header for Ehdr64: the identification, then the fields at their
   places (e_entry at 24, e_shnum at 60, as the test of parse.rs has them). *)
parse_elf_header(b) ==
    [e_ident |-> [k \in Lanes |-> b[16 - k]],
     e_type |-> UintAt(b, 16, 2), e_machine |-> UintAt(b, 18, 2),
     e_version |-> UintAt(b, 20, 4), e_entry |-> UintAt(b, 24, 8),
     e_phoff |-> UintAt(b, 32, 8), e_shoff |-> UintAt(b, 40, 8),
     e_flags |-> UintAt(b, 48, 4), e_ehsize |-> UintAt(b, 52, 2),
     e_phentsize |-> UintAt(b, 54, 2), e_phnum |-> UintAt(b, 56, 2),
     e_shentsize |-> UintAt(b, 58, 2), e_shnum |-> UintAt(b, 60, 2),
     e_shstrndx |-> UintAt(b, 62, 2)]

(* ELFHeader::program_header_table_exists *)
program_header_table_exists(h) == h.e_phnum # 0

(* Shdr64::deserialize(buf, start), for a buffer holding a whole header at
   start: the inverse of Shdr64::to_le_bytes. *)
Shdr64Deserialize(b, start) ==
    [sh_name |-> UintAt(b, start, 4), sh_type |-> UintAt(b, start + 4, 4),
     sh_flags |-> UintAt(b, start + 8, 8), sh_addr |-> UintAt(b, start + 16, 8),
     sh_offset |-> UintAt(b, start + 24, 8),
     sh_size |-> UintAt(b, start + 32, 8),
     sh_link |-> UintAt(b, start + 40, 4), sh_info |-> UintAt(b, start + 44, 4),
     sh_addralign |-> UintAt(b, start + 48, 8),
     sh_entsize |-> UintAt(b, start + 56, 8)]

(* section::Type::NoBits, and the size of a program header. *)
SHT_NOBITS == 8
PhdrSize == 56

(* S::new(shdr): no name, no contents yet. *)
SectionNew(shdr) == [name |-> <<>>, header |-> shdr, contents |-> <<>>]

(* contents.clone_raw_binary() *)
clone_raw_binary(sct) ==
    IF sct.contents = <<>> THEN <<>> ELSE sct.contents[1]

(* read_elf_sections reading the payload of every section, NoBits too. *)
RECURSIVE ReadSectionsFromAnyType(_, _, _, _, _)
ReadSectionsFromAnyType(sct_idx, section_count, sht_offset, b, acc) ==
    IF sct_idx >= section_count THEN <<"Ok", acc>>
    ELSE
      LET header_start == sht_offset + ShdrSize * sct_idx
      IN  IF header_start > Len(b) THEN <<"Panic", acc>>
          ELSE IF Len(b) - header_start < ShdrSize THEN <<"Err", acc>>
          ELSE
            LET shdr == Shdr64Deserialize(b, header_start)
                sct == SectionNew(shdr)
                section_offset == shdr.sh_offset
            IN  IF section_offset + shdr.sh_size > Len(b)
                THEN <<"Panic", acc>>
                ELSE ReadSectionsFromAnyType(
                         sct_idx + 1, section_count, sht_offset, b,
                         Append(acc,
                             [sct EXCEPT !.contents =
                                 <<Slice(b, section_offset, shdr.sh_size)>>]))

(* read_elf_sections: its loop from sct_idx on, `acc` being the sections
   pushed so far.  <<"Ok", sections>>; <<"Err", ..>> when header_deserialize
   fails on a buffer that ends inside the header; <<"Panic", ..>> when a
   slice is taken out of the buffer's range. *)
RECURSIVE ReadSectionsFrom(_, _, _, _, _)
ReadSectionsFrom(sct_idx, section_count, sht_offset, b, acc) ==
    IF sct_idx >= section_count THEN <<"Ok", acc>>
    ELSE
      LET header_start == sht_offset + ShdrSize * sct_idx
      IN  IF header_start > Len(b) THEN <<"Panic", acc>>
          ELSE IF Len(b) - header_start < ShdrSize THEN <<"Err", acc>>
          ELSE
            LET shdr == Shdr64Deserialize(b, header_start)
                sct == SectionNew(shdr)
                section_offset == shdr.sh_offset
            IN  IF shdr.sh_type # SHT_NOBITS
                THEN IF section_offset + shdr.sh_size > Len(b)
                     THEN <<"Panic", acc>>
                     ELSE ReadSectionsFrom(
                              sct_idx + 1, section_count, sht_offset, b,
                              Append(acc,
                                  [sct EXCEPT !.contents =
                                      <<Slice(b, section_offset,
                                              shdr.sh_size)>>]))
                ELSE ReadSectionsFrom(sct_idx + 1, section_count,
                                      sht_offset, b, Append(acc, sct))

read_elf_sections(section_count, sht_offset, b) ==
    ReadSectionsFrom(0, section_count, sht_offset, b, <<>>)

(* read_elf_segments: a segment is its header, kept as the bytes read. *)
RECURSIVE ReadSegmentsFrom(_, _, _, _, _)
ReadSegmentsFrom(seg_idx, segment_count, pht_offset, b, acc) ==
    IF seg_idx >= segment_count THEN <<"Ok", acc>>
    ELSE
      LET header_start == pht_offset + PhdrSize * seg_idx
      IN  IF header_start > Len(b) THEN <<"Panic", acc>>
          ELSE IF Len(b) - header_start < PhdrSize THEN <<"Err", acc>>
          ELSE ReadSegmentsFrom(seg_idx + 1, segment_count, pht_offset, b,
                                Append(acc, Slice(b, header_start, PhdrSize)))

read_elf_segments(segment_count, pht_offset, b) ==
    ReadSegmentsFrom(0, segment_count, pht_offset, b, <<>>)

(* std::str::from_utf8(bytes).is_ok(), for the bytes of the model: an ASCII
   byte is a character, 0xff is part of none. *)
IsUtf8(bytes) == \A i \in 1..Len(bytes) : bytes[i] < 128

(* set_sections_name_shstrtab taking the table from the name index to its
   end, without stopping at the NUL. *)
RECURSIVE SetNamesFromToEnd(_, _, _, _)
SetNamesFromToEnd(idx, shstrndx, section_count, scts) ==
    IF idx >= section_count THEN <<"Ok", scts>>
    ELSE IF idx = 0 \/ idx >= section_count
         THEN SetNamesFromToEnd(idx + 1, shstrndx, section_count, scts)
    ELSE IF idx + 1 > Len(scts) \/ shstrndx + 1 > Len(scts)
         THEN <<"Panic", scts>>
    ELSE
      LET name_idx == scts[idx + 1].header.sh_name
          raw == clone_raw_binary(scts[shstrndx + 1])
      IN  IF name_idx > Len(raw) THEN <<"Panic", scts>>
          ELSE
            LET name_bytes == Slice(raw, name_idx, Len(raw) - name_idx)
            IN  IF ~IsUtf8(name_bytes) THEN <<"Panic", scts>>
                ELSE SetNamesFromToEnd(idx + 1, shstrndx, section_count,
                                       [scts EXCEPT ![idx + 1].name = name_bytes])

(* set_sections_name_shstrtab: its loop from idx on.  <<"Ok", sections>>, or
   <<"Panic", ..>> when the name table or the name index is out of range or
   the name is not UTF-8. *)
RECURSIVE SetNamesFrom(_, _, _, _)
SetNamesFrom(idx, shstrndx, section_count, scts) ==
    IF idx >= section_count THEN <<"Ok", scts>>
    ELSE IF idx = 0 \/ idx >= section_count
         THEN SetNamesFrom(idx + 1, shstrndx, section_count, scts)
    ELSE IF idx + 1 > Len(scts) \/ shstrndx + 1 > Len(scts)
         THEN <<"Panic", scts>>
    ELSE
      LET name_idx == scts[idx + 1].header.sh_name
          raw == clone_raw_binary(scts[shstrndx + 1])
      IN  IF name_idx > Len(raw) THEN <<"Panic", scts>>
          ELSE
            LET name_bytes ==
                    TakeWhileNotNul(Slice(raw, name_idx, Len(raw) - name_idx))
            IN  IF ~IsUtf8(name_bytes) THEN <<"Panic", scts>>
                ELSE SetNamesFrom(idx + 1, shstrndx, section_count,
                                  [scts EXCEPT ![idx + 1].name = name_bytes])

set_sections_name_shstrtab(shstrndx, section_count, scts) ==
    SetNamesFrom(0, shstrndx, section_count, scts)

(* The files read: images the writer lays out, with any four bytes in the
   place of the magic, cut short, or declaring one program header. *)
NullSection == Section64(Shdr64Default, <<>>)
Sized(bytes) == Section64([Shdr64Default EXCEPT !.sh_size = Len(bytes)], bytes)

ImageOf(secs) ==
    LET h == ConditionHeader(Ehdr64New, secs)
    IN  to_le_bytes(h, ConditionSections(h, secs))

(* The image of three sections: the null section, a payload, a name table. *)
ThreeSections ==
    ImageOf(<<NullSection, Sized(<<7, 8, 9>>),
              Sized(build_string_table(<<NameAt(1), NameAt(2)>>))>>)

Images ==
    {ImageOf(<<NullSection>>), ThreeSections}

MagicBytes == {127, 69, 76, 70, 75}

WithMagic(img, m) == [i \in 1..Len(img) |-> IF i <= 4 THEN m[i] ELSE img[i]]

WithPhdr(img) ==
    [i \in 1..Len(img) |->
        IF i = 33 THEN EhdrSize ELSE IF i = 57 THEN 1 ELSE img[i]]

CutShort(img) ==
    {SubSeq(img, 1, n) :
        n \in {0, 3, 4, EhdrSize - 1, Len(img) - ShdrSize, Len(img) - 1}}

(* img with `bytes` written over the bytes from `offset` on. *)
WithBytesAt(img, offset, bytes) ==
    [i \in 1..Len(img) |->
        IF i > offset /\ i <= offset + Len(bytes)
        THEN bytes[i - offset] ELSE img[i]]

(* img with the header of its section k declaring another name index, type
   and size: the fields at 0, 4 and 32 of the k-th entry of the table. *)
WithShdr(img, k, sh_name, sh_type, sh_size) ==
    LET at == UintAt(img, 40, 8) + ShdrSize * k
    IN  WithBytesAt(
            WithBytesAt(WithBytesAt(img, at, LeBytes(sh_name, 4)),
                        at + 4, LeBytes(sh_type, 4)),
            at + 32, LeBytes(sh_size, 8))

(* The headers section 1 is made to declare: a name index inside, at the
   end of and beyond the name table; a type that is NoBits or not; a size
   inside and beyond the file. *)
DeclaredNames == {1, 3, 4, 8, 9}
DeclaredTypes == {0, 1, SHT_NOBITS}
DeclaredSizes == {0, 3, 4, Len(ThreeSections)}

ReadBufs ==
    {WithMagic(img, m) :
        img \in Images, m \in MagicBytes \X MagicBytes \X MagicBytes \X MagicBytes}
    \cup UNION {CutShort(img) : img \in Images}
    \cup {WithPhdr(img) : img \in Images}
    \cup {WithShdr(ThreeSections, 1, n, t, z) :
            n \in DeclaredNames, t \in DeclaredTypes, z \in DeclaredSizes}

IdleRead ==
    /\ file_path = ""
    /\ buf = <<>>
    /\ rpc = "idle"
    /\ r_header = <<>>
    /\ r_sections = <<>>
    /\ r_segments = <<>>
    /\ decoded = {}
    /\ result = <<>>

(* read_elf is called on a path whose file has been read into buf. *)
InitRead ==
    /\ file_path \in {"a.out", "b.o"}
    /\ buf \in ReadBufs
    /\ rpc = "magic"
    /\ r_header = <<>>
    /\ r_sections = <<>>
    /\ r_segments = <<>>
    /\ decoded = {}
    /\ result = <<>>

(* parse.rs:36: &buf[..4] panics on a shorter buffer; `?` returns the error
   of check_elf_magic. *)
ReadCheckMagic ==
    /\ rpc = "magic"
    /\ IF Len(buf) < 4
       THEN rpc' = "panic" /\ result' = <<"Panic">>
       ELSE LET r == check_elf_magic(file_path, SubSeq(buf, 1, 4))
            IN  IF r[1] = "Err"
                THEN rpc' = "returned" /\ result' = r
                ELSE rpc' = "header" /\ result' = <<>>
    /\ UNCHANGED <<file_path, buf, r_header, r_sections, r_segments, decoded>>
    /\ UNCHANGED <<fileVars, tableVars, identVars>>

(* parse.rs:38-41: the header is decoded; parse_elf_header returns no
   Result, a buffer shorter than the header panics. *)
ReadParseHeader ==
    /\ rpc = "header"
    /\ IF Len(buf) < EhdrSize
       THEN /\ rpc' = "panic" /\ result' = <<"Panic">>
            /\ UNCHANGED <<r_header, decoded>>
       ELSE /\ r_header' = <<parse_elf_header(buf)>>
            /\ decoded' = decoded \cup {"header"}
            /\ rpc' = "sections"
            /\ UNCHANGED result
    /\ UNCHANGED <<file_path, buf, r_sections, r_segments>>
    /\ UNCHANGED <<fileVars, tableVars, identVars>>

(* parse.rs:43-48 *)
ReadSections ==
    /\ rpc = "sections"
    /\ LET r == read_elf_sections(r_header[1].e_shnum, r_header[1].e_shoff, buf)
       IN  CASE r[1] = "Ok" ->
                  /\ r_sections' = r[2]
                  /\ decoded' = decoded \cup {"sections"}
                  /\ rpc' = "segments"
                  /\ UNCHANGED result
             [] r[1] = "Err" ->
                  /\ rpc' = "returned"
                  /\ result' = <<"Err", "bincode", "">>
                  /\ UNCHANGED <<r_sections, decoded>>
             [] r[1] = "Panic" ->
                  /\ rpc' = "panic"
                  /\ result' = <<"Panic">>
                  /\ UNCHANGED <<r_sections, decoded>>
    /\ UNCHANGED <<file_path, buf, r_header, r_segments>>
    /\ UNCHANGED <<fileVars, tableVars, identVars>>

(* parse.rs:50-57 *)
ReadSegments ==
    /\ rpc = "segments"
    /\ IF program_header_table_exists(r_header[1])
       THEN LET r == read_elf_segments(r_header[1].e_phnum,
                                       r_header[1].e_phoff, buf)
            IN  CASE r[1] = "Ok" ->
                       /\ r_segments' = r[2]
                       /\ decoded' = decoded \cup {"segments"}
                       /\ rpc' = "names"
                       /\ UNCHANGED result
                  [] r[1] = "Err" ->
                       /\ rpc' = "returned"
                       /\ result' = <<"Err", "bincode", "">>
                       /\ UNCHANGED <<r_segments, decoded>>
                  [] r[1] = "Panic" ->
                       /\ rpc' = "panic"
                       /\ result' = <<"Panic">>
                       /\ UNCHANGED <<r_segments, decoded>>
       ELSE /\ rpc' = "names"
            /\ UNCHANGED <<r_segments, decoded, result>>
    /\ UNCHANGED <<file_path, buf, r_header, r_sections>>
    /\ UNCHANGED <<fileVars, tableVars, identVars>>

(* parse.rs:59-63 *)
ReadSetNames ==
    /\ rpc = "names"
    /\ LET r == set_sections_name_shstrtab(r_header[1].e_shstrndx,
                                           r_header[1].e_shnum, r_sections)
       IN  IF r[1] = "Ok"
           THEN /\ r_sections' = r[2]
                /\ decoded' = decoded \cup {"names"}
                /\ rpc' = "symbols"
                /\ UNCHANGED result
           ELSE /\ rpc' = "panic"
                /\ result' = <<"Panic">>
                /\ UNCHANGED <<r_sections, decoded>>
    /\ UNCHANGED <<file_path, buf, r_header, r_segments>>
    /\ UNCHANGED <<fileVars, tableVars, identVars>>

(* parse.rs:65-81: no file of the model holds a SymTab or DynSym section, so
   the loop skips every section, and read_elf returns the file. *)
ReadSymbolsAndReturn ==
    /\ rpc = "symbols"
    /\ rpc' = "returned"
    /\ result' = <<"Ok">>
    /\ UNCHANGED <<file_path, buf, r_header, r_sections, r_segments, decoded>>
    /\ UNCHANGED <<fileVars, tableVars, identVars>>

----------------------------------------------------------------------------
(* The specifications. *)

vars == <<fileVars, tableVars, identVars, readVars>>

(* The file model: add_section, condition and to_le_bytes in any order. *)
Init == InitFile /\ IdleTable /\ IdleIdent /\ IdleRead

Next == AddSection \/ Condition \/ ToLeBytes

Spec == Init /\ [][Next]_vars

(* The string-table builders. *)
InitTableSpec == InitFile /\ InitTable /\ IdleIdent /\ IdleRead

NextTable == BuildStringTable \/ BuildByteStringTable

SpecTable == InitTableSpec /\ [][NextTable]_vars

(* The identification setters. *)
InitIdentSpec == InitFile /\ IdleTable /\ InitIdent /\ IdleRead

NextIdent ==
    \/ EhdrSetClass \/ EhdrSetData \/ EhdrSetVersion \/ EhdrSetOsabi
    \/ BuilderClass \/ BuilderData \/ BuilderVersion \/ BuilderOsabi
    \/ Finalize

SpecIdent == InitIdentSpec /\ [][NextIdent]_vars

(* read_elf. *)
InitReadSpec == InitFile /\ IdleTable /\ IdleIdent /\ InitRead

NextRead ==
    \/ ReadCheckMagic \/ ReadParseHeader \/ ReadSections \/ ReadSegments
    \/ ReadSetNames \/ ReadSymbolsAndReturn

SpecRead == InitReadSpec /\ [][NextRead]_vars

----------------------------------------------------------------------------
(* What the claims below speak of. *)

(* The payload lengths of the first k sections, added up. *)
RECURSIVE PayloadLenBefore(_, _)
PayloadLenBefore(secs, k) ==
    IF k = 0 THEN 0 ELSE PayloadLenBefore(secs, k - 1) + Len(secs[k].bytes)

(* A table NUL,(name,NUL)*: it starts and ends with a NUL. *)
IsNameTable(t) == Len(t) >= 1 /\ t[1] = NUL /\ t[Len(t)] = NUL

(* The 0-based position of the i-th NUL of t, i counting from 0. *)
NulAt(t, i) ==
    (CHOOSE p \in 1..Len(t) :
        t[p] = NUL /\ Cardinality({q \in 1..(p - 1) : t[q] = NUL}) = i) - 1

(* How many names a table NUL,(name,NUL)* holds: one per NUL after the first. *)
NameCount(t) == Cardinality({p \in 1..Len(t) : t[p] = NUL}) - 1

(* The 0-based position at which the i-th name (i >= 1) of the table starts,
   and the name itself. *)
NameStart(t, i) == NulAt(t, i - 1) + 1
NameOf(t, i) == SubSeq(t, NulAt(t, i - 1) + 2, NulAt(t, i))

(* A step of condition() that returned. *)
ConditionStep == nConds' = nConds + 1 /\ fstate' = "ok"

\* C1: condition() called again on a file whose sections were not changed
\* since the last condition() leaves to_le_bytes() byte-for-byte the same.
C1_ConditionIdempotent ==
    [][(conditioned /\ ConditionStep)
        => to_le_bytes(ehdr', sections') = to_le_bytes(ehdr, sections)]_vars

\* C2: after condition(), section i's offset is the header size plus the
\* payload lengths of the sections before it, whatever offset it carried.
C2_OffsetsFromPayloads ==
    (conditioned /\ fstate = "ok")
    => \A i \in 1..Len(sections) :
          sections[i].header.sh_offset
              = EhdrSize + PayloadLenBefore(sections, i - 1)

\* C3: after condition() then to_le_bytes(), the output holds each section's
\* payload at the section's file offset, the payloads following the header
\* in section order.
C3_PayloadsAtOffsets ==
    (conditioned /\ fstate = "ok" /\ out # <<>>)
    => /\ Slice(out, EhdrSize, PayloadLenBefore(sections, Len(sections)))
            = Concat([i \in 1..Len(sections) |-> sections[i].bytes])
       /\ \A i \in 1..Len(sections) :
            LET off == sections[i].header.sh_offset
                len == Len(sections[i].bytes)
            IN  off + len <= Len(out) /\ Slice(out, off, len) = sections[i].bytes

\* C4: after condition(), e_shoff is the header size plus all payload
\* lengths; to_le_bytes() then holds the section headers from that offset
\* on, one per section in order, and nothing after them.
C4_SectionTableAtShoff ==
    (conditioned /\ fstate = "ok")
    => /\ ehdr.e_shoff = EhdrSize + PayloadLenBefore(sections, Len(sections))
       /\ out # <<>> =>
            /\ Len(out) = EhdrSize + PayloadLenBefore(sections, Len(sections))
                          + Len(sections) * ShdrSize
            /\ \A i \in 1..Len(sections) :
                 Slice(out, ehdr.e_shoff + (i - 1) * ShdrSize, ShdrSize)
                     = ShdrToLeBytes(sections[i].header)

C4_Witness ==
    /\ conditioned /\ fstate = "ok" /\ out # <<>>
    /\ Len(sections) >= 3
    /\ \E i \in 1..Len(sections) :
         /\ Len(sections[i].bytes) > 0
         /\ sections[i].header.sh_size # Len(sections[i].bytes)

\* C5: after add_section calls and condition(), e_shnum is the number of
\* sections (section_number()), e_shstrndx is the last section's index, in
\* bounds, and e_shentsize is 0x40.
C5_CountsAndNameTableIndex ==
    (conditioned /\ fstate = "ok")
    => /\ Len(sections) >= 1
       /\ ehdr.e_shnum = Len(sections)
       /\ ehdr.e_shnum = section_number(sections)
       /\ ehdr.e_shstrndx = Len(sections) - 1
       /\ ehdr.e_shstrndx < Len(sections)
       /\ ehdr.e_shentsize = 64

C5_Witness == conditioned /\ fstate = "ok" /\ Len(sections) = MaxSections

\* C6: condition() on a file whose last section holds a table
\* NUL,(name,NUL)* gives every section i but the null section and the table
\* section the position at which the table's i-th name starts, from which
\* the bytes up to the next NUL are that name; it writes no other name index
\* and adds no section.
C6_NameIndices ==
    [][(ConditionStep /\ IsNameTable(sections[Len(sections)].bytes))
        => LET n == Len(sections)
               t == sections[n].bytes
           IN  /\ Len(sections') = n
               /\ sections'[1].header.sh_name = sections[1].header.sh_name
               /\ sections'[n].header.sh_name = sections[n].header.sh_name
               /\ \A i \in 1..(n - 2) :
                    i <= NameCount(t) =>
                      LET sh_name == sections'[i + 1].header.sh_name
                      IN  /\ sh_name = NameStart(t, i)
                          /\ TakeWhileNotNul(Slice(t, sh_name, Len(t) - sh_name))
                                = NameOf(t, i)]_vars

C6_Witness ==
    /\ conditioned /\ fstate = "ok"
    /\ Len(sections) >= 4
    /\ IsNameTable(sections[Len(sections)].bytes)
    /\ NameCount(sections[Len(sections)].bytes) >= Len(sections) - 2
    /\ sections[3].header.sh_name > 2

\* C7: check_elf_magic accepts exactly the four bytes 0x7f 0x45 0x4c 0x46 and
\* answers any other four with NotELF carrying the path; read_elf checks
\* them first, so that a buffer failing the check is returned as that error
\* with no header, section or segment decoded.
C7_MagicIsFirstGate ==
    /\ (rpc # "magic" /\ Len(buf) >= 4) =>
          IF SubSeq(buf, 1, 4) = <<127, 69, 76, 70>>
          THEN /\ rpc \in {"header", "sections", "segments", "names",
                           "symbols", "returned", "panic"}
               /\ ~(Len(result) >= 2 /\ result[2] = "NotELF")
          ELSE /\ rpc = "returned"
               /\ result = <<"Err", "NotELF", file_path>>
               /\ decoded = {}
               /\ r_header = <<>> /\ r_sections = <<>> /\ r_segments = <<>>
    /\ decoded # {} => (Len(buf) >= 4 /\ SubSeq(buf, 1, 4) = <<127, 69, 76, 70>>)

C7_Witness ==
    /\ rpc = "returned"
    /\ result = <<"Err", "NotELF", file_path>>
    /\ Len(buf) > EhdrSize
    /\ SubSeq(buf, 1, 3) = <<127, 69, 76>>

NoNulIn(names) == \A i \in 1..Len(names) : \A j \in 1..Len(names[i]) : names[i][j] # NUL

(* The 0-based position of the i-th name in a table built from names: after
   the leading NUL and the names before it, each with its NUL. *)
RECURSIVE StartOfName(_, _)
StartOfName(names, i) ==
    IF i = 1 THEN 1 ELSE StartOfName(names, i - 1) + Len(names[i - 1]) + 1

\* C8: for names without NUL bytes, build_string_table returns a buffer that
\* starts with a NUL, holds each name in list order with a NUL right after
\* it, holds only NUL padding after the last of them, and has a length that
\* is a multiple of 4; build_byte_string_table returns the same buffer.
C8_StringTableShape ==
    (ret_string_table # <<>> /\ NoNulIn(arg_strings))
    => LET k == Len(arg_strings)
           end == StartOfName(arg_strings, k + 1)
       IN  /\ ret_string_table[1] = NUL
           /\ \A i \in 1..k :
                /\ Slice(ret_string_table, StartOfName(arg_strings, i), Len(arg_strings[i]))
                      = arg_strings[i]
                /\ ret_string_table[StartOfName(arg_strings, i) + Len(arg_strings[i]) + 1]
                      = NUL
           /\ Len(ret_string_table) > end
           /\ \A p \in (end + 1)..Len(ret_string_table) : ret_string_table[p] = NUL
           /\ Len(ret_string_table) % 4 = 0
           /\ ret_byte_string_table # <<>> => ret_byte_string_table = ret_string_table

C8_Witness ==
    /\ ret_string_table # <<>> /\ ret_byte_string_table # <<>>
    /\ NoNulIn(arg_strings)
    /\ Len(arg_strings) = 2
    /\ Len(arg_strings[1]) = 2 /\ Len(arg_strings[2]) = 1

\* C9 as stated: splitting the buffer build_string_table returned on NULs and
\* dropping the empty first piece gives back the list of names.
C9_SplitRecoversNames ==
    ret_string_table # <<>> => Tail(Split(ret_string_table)) = arg_strings

\* C9 as amended: for names without NUL bytes, splitting the buffer on NULs
\* and dropping the empty first piece gives the names in order, followed by
\* empty pieces only: one for the NUL that ends the table's names and one for
\* each of the 1 to 4 padding bytes.
C9_SplitRecoversNamesThenEmpties ==
    (ret_string_table # <<>> /\ NoNulIn(arg_strings))
    => LET pieces == Tail(Split(ret_string_table))
           k == Len(arg_strings)
       IN  /\ Len(pieces) \in (k + 2)..(k + 5)
           /\ SubSeq(pieces, 1, k) = arg_strings
           /\ \A i \in (k + 1)..Len(pieces) : pieces[i] = <<>>

C9_Witness ==
    /\ ret_string_table # <<>>
    /\ NoNulIn(arg_strings)
    /\ Len(arg_strings) = 2
    /\ arg_strings[1] # <<>> /\ arg_strings[2] # <<>> /\ arg_strings[1] # arg_strings[2]

(* The identification field of the object the last setter was called on. *)
IdentOfLastSet ==
    IF lastSet[1] = "ehdr" THEN ehdr.e_ident ELSE builder.e_ident

\* C10: a setter called on an object right after the same setter was called
\* on it leaves the component's byte equal to the encoding of the value just
\* given, and every other byte of the identification as it was.
C10_SetTwiceOverwrites ==
    [][(/\ lastSet # <<>> /\ lastSet' # <<>>
        /\ lastSet'[1] = lastSet[1] /\ lastSet'[2] = lastSet[2])
        => /\ IdentOfLastSet'[LaneOf(lastSet'[2])] = lastSet'[3]
           /\ \A k \in Lanes \ {LaneOf(lastSet'[2])} :
                IdentOfLastSet'[k] = IdentOfLastSet[k]]_vars

----------------------------------------------------------------------------
(* The reader's claims. *)

(* The header read_elf decoded says where the section headers are, and the
   buffer holds every one of them whole. *)
HeadersInBuffer ==
    /\ r_header # <<>>
    /\ r_header[1].e_shoff + ShdrSize * r_header[1].e_shnum <= Len(buf)

(* The indices of the section headers of the buffer. *)
SectionIndices == 0..(r_header[1].e_shnum - 1)

(* What the i-th section header of the buffer declares. *)
Declared(i) == Shdr64Deserialize(buf, r_header[1].e_shoff + ShdrSize * i)

(* Some section that is not NoBits declares offset + size beyond the
   buffer. *)
SomeSectionOutOfRange ==
    /\ HeadersInBuffer
    /\ \E i \in SectionIndices :
          /\ Declared(i).sh_type # SHT_NOBITS
          /\ Declared(i).sh_offset + Declared(i).sh_size > Len(buf)

\* C11: when a section header that is not NoBits declares offset + size
\* beyond the buffer length, read_elf, once past the decoding of the
\* sections, has returned an error value to its caller: it has not aborted
\* and holds no section of a partial file.
C11_OutOfRangeIsError ==
    (SomeSectionOutOfRange /\ rpc # "sections")
        => /\ rpc = "returned"
           /\ result[1] = "Err"
           /\ r_sections = <<>>

(* read_elf has decoded the sections of the buffer. *)
SectionsDecoded == "sections" \in decoded

\* C12: every section read_elf_sections produced carries the header the
\* buffer declares for it; when its type is not NoBits its payload is the
\* buffer's bytes from sh_offset up to sh_offset + sh_size, sh_size bytes
\* long; when its type is NoBits it holds no bytes, whatever its sh_size.
C12_PayloadIsDeclaredSlice ==
    SectionsDecoded =>
        /\ Len(r_sections) = r_header[1].e_shnum
        /\ \A i \in SectionIndices :
              LET sct == r_sections[i + 1]
                  h == sct.header
              IN  /\ h = Declared(i)
                  /\ IF h.sh_type # SHT_NOBITS
                     THEN /\ h.sh_offset + h.sh_size <= Len(buf)
                          /\ sct.contents =
                                <<SubSeq(buf, h.sh_offset + 1,
                                         h.sh_offset + h.sh_size)>>
                          /\ Len(sct.contents[1]) = h.sh_size
                     ELSE sct.contents = <<>>

(* The sections are decoded; one is NoBits and declares a size beyond the
   buffer, another is not NoBits and has a payload. *)
C12_Witness ==
    /\ SectionsDecoded
    /\ \E i \in SectionIndices :
          /\ r_sections[i + 1].header.sh_type = SHT_NOBITS
          /\ r_sections[i + 1].header.sh_offset
                + r_sections[i + 1].header.sh_size > Len(buf)
    /\ \E i \in SectionIndices :
          /\ r_sections[i + 1].header.sh_type # SHT_NOBITS
          /\ r_sections[i + 1].header.sh_size > 0
          /\ r_sections[i + 1].contents # <<>>

(* read_elf has resolved the names of the sections. *)
NamesResolved == "names" \in decoded

(* The payload of the name table: of the section at e_shstrndx. *)
NameTablePayload == r_sections[r_header[1].e_shstrndx + 1].contents[1]

(* The bytes of t from the index n (counted from 0) up to, not including,
   the next NUL, or to the end of t when no NUL follows. *)
BytesUpToNul(t, n) ==
    LET stops == {j \in (n + 1)..Len(t) : t[j] = NUL} \cup {Len(t) + 1}
        stop == CHOOSE j \in stops : \A k \in stops : j <= k
    IN  [j \in 1..(stop - 1 - n) |-> t[n + j]]

\* C13: once read_elf has resolved the names, all the sections the header
\* counts had been decoded before; every section of index >= 1 is named by
\* the bytes of the name table's payload from the section's sh_name up to,
\* not including, the next NUL; the null section at index 0 keeps the
\* empty name it was created with.
C13_NamesFromNameTable ==
    NamesResolved =>
        /\ SectionsDecoded
        /\ Len(r_sections) = r_header[1].e_shnum
        /\ r_sections[1].name = <<>>
        /\ \A i \in SectionIndices \ {0} :
              r_sections[i + 1].name =
                  BytesUpToNul(NameTablePayload,
                               r_sections[i + 1].header.sh_name)

(* Names are resolved, and some section's name starts past the first name
   of the table and is not empty: the table goes on after its NUL. *)
C13_Witness ==
    /\ NamesResolved
    /\ \E i \in SectionIndices \ {0} :
          /\ r_sections[i + 1].header.sh_name > 1
          /\ r_sections[i + 1].name # <<>>
          /\ r_sections[i + 1].header.sh_name + Len(r_sections[i + 1].name) + 1
                < Len(NameTablePayload)

====
